---- MODULE Spec2Model ----
(***************************************************************************)
(* Windmill Fan integration: the Blynk pin client (blynk_service.py), the  *)
(* device adapter on top of it and the data update coordinator            *)
(* (coordinator.py).                                                       *)
(*                                                                         *)
(* A text is a sequence of characters; a character is a one-token string.  *)
(* The token "sup2" stands for the character U+00B2 (superscript two), a   *)
(* character for which str.isdigit() is true and int() raises ValueError.  *)
(***************************************************************************)
EXTENDS Integers, Sequences, FiniteSets, TLC

VARIABLES
    session,              \* BlynkService._session: "none", "open" or "closed"
    req,                  \* the pin request the refresh / the caller is waiting in
    lastCall,             \* log: the last finished pin call of each task
    rpc,                  \* where the refresh is: "idle", "power" or "speed"
    power_state,          \* local power_state of _async_update_data
    data,                 \* coordinator.data
    last_update_success,  \* coordinator.last_update_success
    cycle,                \* log: what the reads of the current / last refresh gave
    lastGood,             \* log: the snapshot read by the last refresh whose reads both succeeded
    lastOutcome,          \* log: "none", "ok" or "failed" for the last finished refresh
    raised,               \* log: the exception the last _async_update_data raised, or "none"
    raw,                  \* decoding: the response text
    dpc,                  \* decoding: "start", "pin", "power" or "fan"
    decoded,              \* decoding: result of async_get_pin_value
    powerOut,             \* decoding: result of async_get_power
    fanOut,               \* decoding: result of async_get_fan
    device,               \* the pin values the remote service stores
    adp,                  \* the adapter call in progress (async_set_power, ...)
    adpDone,              \* log: the last finished adapter call
    stored,               \* log: the power / speed name whose write the service stored last
    closeLog,             \* log: the last call of BlynkService.close()
    shutdown,             \* log: async_shutdown() has returned; a refresh was in flight then
    setup,                \* async_setup_entry: where it is, what it saw and how it ended
    hass_data,            \* entry.entry_id is a key of hass.data[DOMAIN]
    platforms,            \* the platforms of the entry were forwarded
    flow,                 \* the config / options flow step in progress or finished
    view,                 \* log: what the entity's properties last returned
    cmd,                  \* the entity command in progress
    cmdDone,              \* log: the last finished entity command
    unload,               \* async_unload_entry / async_reload_entry in progress or ended
    replaced              \* log: the states of the sessions that were created for the
                          \* entry and that no service refers to any more

vars == <<session, req, lastCall, rpc, power_state, data, last_update_success,
          cycle, lastGood, lastOutcome, raised, raw, dpc, decoded, powerOut, fanOut,
          device, adp, adpDone, stored, closeLog, shutdown, setup, hass_data,
          platforms, flow, view, cmd, cmdDone, unload, replaced>>

pinVars == <<session, req, lastCall, replaced>>
coordVars ==
    <<rpc, power_state, data, last_update_success, cycle, lastGood, lastOutcome, raised>>
decodeVars == <<raw, dpc, decoded, powerOut, fanOut>>
adapterVars == <<adp, adpDone, stored>>
lifeVars == <<closeLog, shutdown>>
setupVars == <<setup, hass_data, platforms, unload>>
flowVars == <<flow>>
entityVars == <<view, cmd, cmdDone>>
hostVars == <<setupVars, flowVars, entityVars>>
appVars == <<device, adapterVars, lifeVars, hostVars>>

----------------------------------------------------------------------------
(* const.py *)

MAX_RETRIES == 3

PIN_POWER == "V0"

PIN_FAN_SPEED == "V2"

DEFAULT_FAN_SPEED == "Medium"

Levels == {"Whisper", "Low", "Medium", "High", "Boost"}

FAN_SPEED_MAPPING ==
    [l \in Levels |->
        CASE l = "Whisper" -> <<"1">>
          [] l = "Low"     -> <<"2">>
          [] l = "Medium"  -> <<"3">>
          [] l = "High"    -> <<"4">>
          [] l = "Boost"   -> <<"5">>]

Codes == {FAN_SPEED_MAPPING[l] : l \in Levels}

FAN_SPEED_REVERSE_MAPPING ==
    [c \in Codes |-> CHOOSE l \in Levels : FAN_SPEED_MAPPING[l] = c]

POWER_MAPPING == [b \in BOOLEAN |-> IF b THEN 1 ELSE 0]

----------------------------------------------------------------------------
(* Bounds *)

\* longest response text the decoding specification enumerates
MaxLen == 5

----------------------------------------------------------------------------
(* Python text primitives used by the decoding *)

DecimalChars == {"0", "1", "2", "3", "4", "5", "6", "7", "8", "9"}

\* characters c with c.isdigit(): the decimal digits and digits such as U+00B2
DigitChars == DecimalChars \cup {"sup2"}

AlphaChars == {"e", "o", "f", "n"}

SpaceChars == {" "}

\* the characters response texts are enumerated over
Alphabet == {"0", "1", "2", "e", " ", "[", "]", ",", "\"", "sup2"}

Texts == UNION {[1..n -> Alphabet] : n \in 0..MaxLen}

\* every decimal digit as a bare scalar and as the only element of an array
CodeTexts ==
    UNION {{<<d>>, <<"[", d, "]">>, <<"[", "\"", d, "\"", "]">>} : d \in DecimalChars}

DigitVal(c) ==
    CASE c = "0" -> 0 [] c = "1" -> 1 [] c = "2" -> 2 [] c = "3" -> 3
      [] c = "4" -> 4 [] c = "5" -> 5 [] c = "6" -> 6 [] c = "7" -> 7
      [] c = "8" -> 8 [] c = "9" -> 9

DigitChar(d) ==
    CASE d = 0 -> "0" [] d = 1 -> "1" [] d = 2 -> "2" [] d = 3 -> "3"
      [] d = 4 -> "4" [] d = 5 -> "5" [] d = 6 -> "6" [] d = 7 -> "7"
      [] d = 8 -> "8" [] d = 9 -> "9"

RECURSIVE LStrip(_)
LStrip(s) ==
    IF s # <<>> /\ Head(s) \in SpaceChars THEN LStrip(Tail(s)) ELSE s

RECURSIVE RStrip(_)
RStrip(s) ==
    IF s # <<>> /\ s[Len(s)] \in SpaceChars
        THEN RStrip(SubSeq(s, 1, Len(s) - 1))
        ELSE s

\* str.strip()
Strip(s) == RStrip(LStrip(s))

\* str.isdigit()
IsDigit(s) == s # <<>> /\ \A i \in 1..Len(s) : s[i] \in DigitChars

\* str.isalpha()
IsAlpha(s) == s # <<>> /\ \A i \in 1..Len(s) : s[i] \in AlphaChars

RECURSIVE DecimalValue(_)
DecimalValue(s) ==
    IF s = <<>> THEN 0
    ELSE 10 * DecimalValue(SubSeq(s, 1, Len(s) - 1)) + DigitVal(s[Len(s)])

\* int(s) for a text with s.isdigit(): ValueError unless every character is
\* a decimal digit
PyInt(s) ==
    IF \A i \in 1..Len(s) : s[i] \in DecimalChars
        THEN [ok |-> TRUE, v |-> DecimalValue(s)]
        ELSE [ok |-> FALSE, v |-> 0]

RECURSIVE IntToStr(_)
IntToStr(n) ==
    IF n < 10 THEN <<DigitChar(n)>>
    ELSE IntToStr(n \div 10) \o <<DigitChar(n % 10)>>

----------------------------------------------------------------------------
(* json.loads over the alphabet: numbers without sign or fraction, strings *)
(* without escapes, arrays.  A parse gives [ok, val, next].                *)

ParseFail == [ok |-> FALSE, val |-> [t |-> "none"], next |-> 0]

RECURSIVE SkipWs(_, _)
SkipWs(s, i) ==
    IF i <= Len(s) /\ s[i] \in SpaceChars THEN SkipWs(s, i + 1) ELSE i

\* first position >= i that holds no decimal digit
RECURSIVE DigitsEnd(_, _)
DigitsEnd(s, i) ==
    IF i <= Len(s) /\ s[i] \in DecimalChars THEN DigitsEnd(s, i + 1) ELSE i

\* first position >= i holding a quote, or Len(s) + 1
RECURSIVE QuoteAt(_, _)
QuoteAt(s, i) ==
    IF i <= Len(s) /\ s[i] # "\"" THEN QuoteAt(s, i + 1) ELSE i

\* NUMBER_RE: (0|[1-9]\d*) then optionally [eE]\d+ ; s[i] is a decimal digit
ParseNumber(s, i) ==
    LET intEnd == IF s[i] = "0" THEN i + 1 ELSE DigitsEnd(s, i)
        expEnd == IF intEnd <= Len(s) /\ s[intEnd] = "e"
                      THEN DigitsEnd(s, intEnd + 1)
                      ELSE intEnd
        isFloat == expEnd > intEnd + 1
    IN  IF isFloat
            THEN [ok |-> TRUE,
                  val |-> [t |-> "float",
                           m |-> SubSeq(s, i, intEnd - 1),
                           e |-> DecimalValue(SubSeq(s, intEnd + 1, expEnd - 1))],
                  next |-> expEnd]
            ELSE [ok |-> TRUE,
                  val |-> [t |-> "int", v |-> DecimalValue(SubSeq(s, i, intEnd - 1))],
                  next |-> intEnd]

ParseString(s, i) ==
    LET j == QuoteAt(s, i + 1)
    IN  IF j > Len(s) THEN ParseFail
        ELSE [ok |-> TRUE,
              val |-> [t |-> "str", v |-> SubSeq(s, i + 1, j - 1)],
              next |-> j + 1]

RECURSIVE ParseValue(_, _)
RECURSIVE ParseElems(_, _, _)

\* JSONArray after the first value: acc holds the values parsed so far and i
\* is the position after the last of them
ParseElems(s, i, acc) ==
    LET j == SkipWs(s, i)
    IN  IF j > Len(s) THEN ParseFail
        ELSE IF s[j] = "]"
            THEN [ok |-> TRUE, val |-> [t |-> "list", v |-> acc], next |-> j + 1]
        ELSE IF s[j] = ","
            THEN LET r == ParseValue(s, SkipWs(s, j + 1))
                 IN  IF r.ok THEN ParseElems(s, r.next, Append(acc, r.val))
                     ELSE ParseFail
        ELSE ParseFail

ParseArray(s, i) ==
    LET j == SkipWs(s, i + 1)
    IN  IF j > Len(s) THEN ParseFail
        ELSE IF s[j] = "]"
            THEN [ok |-> TRUE, val |-> [t |-> "list", v |-> <<>>], next |-> j + 1]
        ELSE LET r == ParseValue(s, j)
             IN  IF r.ok THEN ParseElems(s, r.next, <<r.val>>) ELSE ParseFail

\* scan_once at position i
ParseValue(s, i) ==
    IF i > Len(s) THEN ParseFail
    ELSE IF s[i] = "[" THEN ParseArray(s, i)
    ELSE IF s[i] = "\"" THEN ParseString(s, i)
    ELSE IF s[i] \in DecimalChars THEN ParseNumber(s, i)
    ELSE ParseFail

\* json.loads(s): a value between whitespace and nothing after it, else
\* JSONDecodeError
JsonLoads(s) ==
    LET r == ParseValue(s, SkipWs(s, 1))
    IN  IF r.ok /\ SkipWs(s, r.next) = Len(s) + 1 THEN r ELSE ParseFail

----------------------------------------------------------------------------
(* str() and repr() of a decoded pin value *)

RECURSIVE Zeros(_)
Zeros(n) == IF n = 0 THEN <<>> ELSE <<"0">> \o Zeros(n - 1)

RECURSIVE DropTrailingZeros(_)
DropTrailingZeros(s) ==
    IF Len(s) > 1 /\ s[Len(s)] = "0"
        THEN DropTrailingZeros(SubSeq(s, 1, Len(s) - 1))
        ELSE s

\* repr of the float m * 10^e (m a decimal integer text without leading
\* zeros, of at most 17 significant digits): positional below 1e16,
\* exponent notation from 1e16 on
FloatRepr(m, e) ==
    IF m = <<"0">> THEN <<"0", ".", "0">>
    ELSE IF Len(m) + e <= 16 THEN m \o Zeros(e) \o <<".", "0">>
    ELSE LET sig == DropTrailingZeros(m)
         IN  <<sig[1]>>
             \o (IF Len(sig) > 1 THEN <<".">> \o Tail(sig) ELSE <<>>)
             \o <<"e", "+">> \o IntToStr(Len(m) + e - 1)

RECURSIVE PyRepr(_)
RECURSIVE JoinRepr(_)

JoinRepr(vs) ==
    IF vs = <<>> THEN <<>>
    ELSE IF Len(vs) = 1 THEN PyRepr(vs[1])
    ELSE PyRepr(vs[1]) \o <<",", " ">> \o JoinRepr(Tail(vs))

PyRepr(val) ==
    CASE val.t = "int"   -> IntToStr(val.v)
      [] val.t = "float" -> FloatRepr(val.m, val.e)
      [] val.t = "str"   -> <<"'">> \o val.v \o <<"'">>
      [] val.t = "list"  -> <<"[">> \o JoinRepr(val.v) \o <<"]">>

\* str(pin_value)
PyStr(val) == IF val.t = "str" THEN val.v ELSE PyRepr(val)

\* pin_value == 1
EqualsOne(val) ==
    \/ val.t = "int" /\ val.v = 1
    \/ val.t = "float" /\ val.m = <<"1">> /\ val.e = 0

\* pin_value == "1"
EqualsStrOne(val) == val.t = "str" /\ val.v = <<"1">>

----------------------------------------------------------------------------
(* Results of calls: a returned value or a raised exception.  why is the   *)
(* chain of messages, outermost first: an exception that wraps another     *)
(* one quotes its message.                                                 *)

NoVal == [t |-> "none"]

Ok(v) == [ok |-> TRUE, val |-> v, exc |-> "none", why |-> <<>>]

Raise(exc, why) == [ok |-> FALSE, val |-> NoVal, exc |-> exc, why |-> why]

\* raise BlynkServiceError(f"<msg>: {e}") for a caught exception e
Wrap(msg, r) ==
    Raise("BlynkServiceError",
          <<msg>> \o (IF r.exc = "BlynkServiceError" THEN <<>> ELSE <<r.exc>>) \o r.why)

----------------------------------------------------------------------------
(* blynk_service.py *)

\* what one HTTP attempt can end in: a status (with the body for a 200), an
\* aiohttp.ClientError, or the expiry of ClientTimeout(total=HTTP_TIMEOUT),
\* which raises asyncio.TimeoutError (not an aiohttp.ClientError)
StatusKinds == {"401", "400", "other"}

ErrorKinds == {"clienterror", "timeout"}

Outcome(kind, text) == [kind |-> kind, text |-> text]

\* variant: a session is created for every request
_session_is_anything(s) == TRUE

\* `self._session is None or self._session.closed`
_session_is_None_or_closed(s) == s = "none" \/ s = "closed"

_get_session(s) == IF _session_is_None_or_closed(s) THEN "open" ELSE s

\* the sessions left without a reference once _get_session ran on a service
\* whose _session was s: a new session takes the place of s
Replaced(s) ==
    IF _session_is_None_or_closed(s) /\ s # "none" THEN replaced \cup {s} ELSE replaced

\* the same once a new BlynkService took the place of the one whose
\* _session was s and sent its first request
ReplacedService(s) == IF s = "none" THEN replaced ELSE replaced \cup {s}

\* variant: the session is closed without the test for its presence
close_unguarded(s) ==
    IF s = "none"
        THEN [session |-> s, res |-> Raise("AttributeError", <<>>)]
        ELSE [session |-> "closed", res |-> Ok(NoVal)]

\* close(): the session afterwards and what the call returned
close(s) ==
    [session |-> IF s # "none" /\ s # "closed" THEN "closed" ELSE s,
     res |-> Ok(NoVal)]

\* variant: every failed attempt, an error status included, is retried
_make_request_with_retry_any(attempt, o) ==
    IF o.kind = "ok"
        THEN [next |-> "return", res |-> Ok([t |-> "str", v |-> Strip(o.text)])]
    ELSE IF attempt = MAX_RETRIES - 1
        THEN [next |-> "raise",
              res |-> Raise("BlynkServiceError", <<"Request failed after attempts">>)]
    ELSE [next |-> "sleep", res |-> Ok(NoVal)]

\* one iteration of the retry loop: attempt is the loop index, o what the
\* attempt ended in.  Gives the loop's exit (return / raise) or "sleep".
_make_request_with_retry(attempt, o) ==
    CASE o.kind = "ok" ->
            [next |-> "return", res |-> Ok([t |-> "str", v |-> Strip(o.text)])]
      [] o.kind = "401" ->
            [next |-> "raise", res |-> Raise("BlynkServiceError", <<"Invalid authentication token">>)]
      [] o.kind = "400" ->
            [next |-> "raise", res |-> Raise("BlynkServiceError", <<"Bad request">>)]
      [] o.kind = "other" ->
            [next |-> "raise", res |-> Raise("BlynkServiceError", <<"HTTP status">>)]
      [] o.kind = "clienterror" ->
            IF attempt = MAX_RETRIES - 1
                THEN [next |-> "raise",
                      res |-> Raise("BlynkServiceError", <<"Request failed after attempts">>)]
                ELSE [next |-> "sleep", res |-> Ok(NoVal)]
      [] o.kind = "timeout" ->
            [next |-> "raise", res |-> Raise("TimeoutError", <<>>)]

\* the parse of the response text in async_get_pin_value
ParseResponse(T) ==
    IF IsDigit(T)
        THEN LET n == PyInt(T)
             IN  IF n.ok THEN Ok([t |-> "int", v |-> n.v])
                 ELSE Raise("ValueError", <<>>)
    ELSE IF IsAlpha(T) THEN Ok([t |-> "str", v |-> T])
    ELSE LET j == JsonLoads(T)
         IN  IF j.ok /\ j.val.t = "list" /\ Len(j.val.v) > 0
                 THEN Ok(j.val.v[1])
                 ELSE Ok([t |-> "str", v |-> T])

\* r is what _make_request_with_retry returned or raised
async_get_pin_value(r) ==
    IF r.ok
        THEN LET p == ParseResponse(r.val.v)
             IN  IF p.ok THEN p ELSE Wrap("Failed to get pin value", p)
    ELSE IF r.exc = "BlynkServiceError" THEN r
    ELSE Wrap("Failed to get pin value", r)

async_set_pin_value(r) ==
    IF r.ok THEN r
    ELSE IF r.exc = "BlynkServiceError" THEN r
    ELSE Wrap("Failed to set pin value", r)

\* variant: only the comparison with the integer 1
async_get_power_int(r) ==
    IF r.ok THEN Ok(EqualsOne(r.val))
    ELSE Wrap("Failed to get power state", r)

\* r is what async_get_pin_value(PIN_POWER) returned or raised
async_get_power(r) ==
    IF r.ok THEN Ok(EqualsOne(r.val) \/ EqualsStrOne(r.val))
    ELSE Wrap("Failed to get power state", r)

\* variant: a lookup without the default
async_get_fan_nodefault(r) ==
    IF r.ok
        THEN LET pin_value_str == PyStr(r.val)
             IN  IF pin_value_str \in Codes
                     THEN Ok(FAN_SPEED_REVERSE_MAPPING[pin_value_str])
                     ELSE Wrap("Failed to get fan speed", Raise("KeyError", <<>>))
    ELSE Wrap("Failed to get fan speed", r)

\* r is what async_get_pin_value(PIN_FAN_SPEED) returned or raised
async_get_fan(r) ==
    IF r.ok
        THEN LET pin_value_str == PyStr(r.val)
             IN  Ok(IF pin_value_str \in Codes
                        THEN FAN_SPEED_REVERSE_MAPPING[pin_value_str]
                        ELSE "Medium")
    ELSE Wrap("Failed to get fan speed", r)

\* urlencode({'token': ..., pin: value}): the query carries str(value)
_get_request_url(pin, value) == [pin |-> pin, value |-> PyStr(value)]

\* pin_value = POWER_MAPPING.get(value, 0) in async_set_power
async_set_power_pin_value(value) ==
    [t |-> "int", v |-> IF value \in DOMAIN POWER_MAPPING THEN POWER_MAPPING[value] ELSE 0]

\* variant: an unknown name is written as the lowest code
async_set_fan_pin_value_lowest(value) ==
    [t |-> "str",
     v |-> IF value \in DOMAIN FAN_SPEED_MAPPING THEN FAN_SPEED_MAPPING[value] ELSE <<"1">>]

\* pin_value = FAN_SPEED_MAPPING.get(value, "3") in async_set_fan
async_set_fan_pin_value(value) ==
    [t |-> "str",
     v |-> IF value \in DOMAIN FAN_SPEED_MAPPING THEN FAN_SPEED_MAPPING[value] ELSE <<"3">>]

\* r is what async_set_pin_value(PIN_POWER, pin_value) returned or raised;
\* async_set_power returns None
async_set_power(r) == IF r.ok THEN Ok(NoVal) ELSE r

\* r is what async_set_pin_value(PIN_FAN_SPEED, pin_value) returned or raised
async_set_fan(r) == IF r.ok THEN Ok(NoVal) ELSE r

\* variant: the error of the read is passed on
async_validate_token_raising(p) == IF p.ok THEN Ok(TRUE) ELSE p

\* p is what async_get_power() returned or raised
async_validate_token(p) ==
    IF p.ok THEN Ok(TRUE)
    ELSE IF p.exc = "BlynkServiceError" THEN Ok(FALSE)
    ELSE p

----------------------------------------------------------------------------
(* State after construction *)

NoResult == [ok |-> FALSE, val |-> NoVal, exc |-> "none", why |-> <<>>]

Tasks == {"refresh", "caller", "adapter", "setup", "flow", "command"}

\* stale: the session the request holds has been closed
NoReq ==
    [op |-> "none", pin |-> "none", value |-> <<>>, attempt |-> 0, pc |-> "none",
     trace |-> <<>>, stale |-> FALSE]

NoCall == [op |-> "none", pin |-> "none", value |-> <<>>, trace |-> <<>>, res |-> NoResult]

Pins == {PIN_POWER, PIN_FAN_SPEED}

NoAdp == [op |-> "none", flag |-> FALSE, name |-> "none"]

NoAdpDone == [op |-> "none", flag |-> FALSE, name |-> "none", res |-> NoResult]

NoStored == [known |-> FALSE, power |-> FALSE, fan |-> "unknown"]

NoClose == [called |-> FALSE, before |-> "none", res |-> NoResult]

NoShutdown == [done |-> FALSE, inflight |-> FALSE]

\* valid: "none", "true", "false" or "raised"; refreshed: "none", "ok" or "failed"
\* pc is "none", "platforms" (waiting in async_unload_platforms), "returned"
\* (async_unload_entry returned) or "setup" (async_reload_entry called
\* async_setup_entry); res is what async_unload_entry returned: "none",
\* "true" or "false"; kept tells that hass.data still holds the coordinator
\* and the service of before the reload; before is the state of the session
\* when async_unload_entry was called
NoUnload ==
    [pc |-> "none", reload |-> FALSE, res |-> "none", kept |-> FALSE, before |-> "none"]

NoSetup == [pc |-> "none", valid |-> "none", refreshed |-> "none", res |-> NoResult]

\* coordinator.data before the first successful refresh
None == [power |-> FALSE, fan |-> "none"]

NoCycle == [power |-> "none", speed |-> "none", pval |-> FALSE, fval |-> "none"]

InitPin ==
    /\ session = "none"
    /\ replaced = {}
    /\ req = [t \in Tasks |-> NoReq]
    /\ lastCall = [t \in Tasks |-> NoCall]

InitCoord ==
    /\ rpc = "idle"
    /\ power_state = NoResult
    /\ data = None
    /\ last_update_success = TRUE
    /\ cycle = NoCycle
    /\ lastGood = None
    /\ lastOutcome = "none"
    /\ raised = "none"

\* no adapter call was made yet
InitAdapter ==
    /\ adp = NoAdp
    /\ adpDone = NoAdpDone
    /\ stored = NoStored

\* close() and async_shutdown() were not called yet
InitLife ==
    /\ closeLog = NoClose
    /\ shutdown = NoShutdown

\* async_setup_entry was not called yet
InitSetup ==
    /\ setup = NoSetup
    /\ hass_data = FALSE
    /\ platforms = FALSE
    /\ unload = NoUnload

\* len: the length of the submitted token; changed: it differs from the
\* token of the config entry; sent: the validation sent its request
NoFlow ==
    [step |-> "none", pc |-> "none", len |-> 0, changed |-> FALSE, sent |-> FALSE,
     result |-> "none"]

\* no flow step was submitted yet
InitFlow == flow = NoFlow

\* of: coordinator.data as it was when the properties were read
NoView ==
    [read |-> FALSE, of |-> None, is_on |-> FALSE, percentage |-> 0,
     preset_mode |-> "none"]

\* mode "none" and percentage -1 stand for an argument that is None; op is
\* the adapter call the command is waiting in; writes are the pin writes it
\* has sent, each "sent", "ok" or "failed"
NoCmd ==
    [name |-> "none", pc |-> "none", mode |-> "none", percentage |-> -1, op |-> "none",
     writes |-> <<>>]

\* cmdDone is the record of the command called last, empty while it runs
NoCmdDone ==
    [name |-> "none", mode |-> "none", percentage |-> -1, writes |-> <<>>,
     refreshes |-> 0, res |-> NoResult]

\* the entity was not read or commanded yet
InitEntity ==
    /\ view = NoView
    /\ cmd = NoCmd
    /\ cmdDone = NoCmdDone

\* the fan as the remote service holds it at the start: off, Medium
InitDevice == device = [p \in Pins |-> IF p = PIN_POWER THEN <<"0">> ELSE <<"3">>]

InitDecode ==
    /\ dpc = "start"
    /\ decoded = NoResult
    /\ powerOut = NoResult
    /\ fanOut = NoResult

----------------------------------------------------------------------------
(* Decoding of one response: the pin read and the two adapter reads applied *)
(* to the text of a 200 response.                                          *)

GetPinValue ==
    /\ dpc = "start"
    /\ decoded' = async_get_pin_value(_make_request_with_retry(0, Outcome("ok", raw)).res)
    /\ dpc' = "pin"
    /\ UNCHANGED <<raw, powerOut, fanOut, pinVars, coordVars, appVars>>

GetPower ==
    /\ dpc = "pin"
    /\ powerOut' = async_get_power(decoded)
    /\ dpc' = "power"
    /\ UNCHANGED <<raw, decoded, fanOut, pinVars, coordVars, appVars>>

GetFan ==
    /\ dpc = "pin"
    /\ fanOut' = async_get_fan(decoded)
    /\ dpc' = "fan"
    /\ UNCHANGED <<raw, decoded, powerOut, pinVars, coordVars, appVars>>

DecodeInit ==
    /\ raw \in Texts \cup CodeTexts
    /\ InitDecode
    /\ InitPin
    /\ InitCoord
    /\ InitAdapter
    /\ InitDevice
    /\ InitLife
    /\ InitSetup
    /\ InitFlow
    /\ InitEntity

DecodeNext == GetPinValue \/ GetPower \/ GetFan

DecodeSpec == DecodeInit /\ [][DecodeNext]_vars

----------------------------------------------------------------------------
(* The pin client at work: one action per resumption of a coroutine.  A    *)
(* coroutine runs from one await that suspends (the HTTP exchange, the     *)
(* sleep) to the next without interleaving.                                *)

\* response bodies the remote service answers a request with
DeviceTexts ==
    { <<"1">>, <<"0">>, <<"2">>, <<" ", "1", " ">>, <<"o", "f", "f">>,
      <<"[", "\"", "5", "\"", "]">>, <<"sup2">> }

Outcomes ==
    {Outcome("ok", x) : x \in DeviceTexts}
        \cup {Outcome(k, <<>>) : k \in StatusKinds \cup ErrorKinds}

SleepEvent == Outcome("sleep", <<>>)

\* entry of _make_request_with_retry: the session is fetched (created when
\* absent or closed) and the first attempt is sent
NewRequest(op, pin, value) ==
    [op |-> op, pin |-> pin, value |-> value, attempt |-> 0, pc |-> "http",
     trace |-> <<>>, stale |-> FALSE]

\* the remote service stores the value of an update it answers with 200
DeviceAfter(rq, o) ==
    IF rq.op = "set" /\ o.kind = "ok"
        THEN [device EXCEPT ![rq.pin] = rq.value]
        ELSE device

\* the pin call of a finished request: what async_get_pin_value /
\* async_set_pin_value returns or raises for the exit r of the retry loop
PinCallResult(op, r) ==
    IF op = "get" THEN async_get_pin_value(r) ELSE async_set_pin_value(r)

----------------------------------------------------------------------------
(* coordinator.py *)

\* variant: the speed read is sent whatever the power read gave
SpeedReadFollows_always(p) == TRUE

\* _async_update_data goes on to the speed read after the power read p
SpeedReadFollows(p) == p.ok

\* variant: the error of a failed read is passed on as it is
_async_update_data_reraising(p, f) ==
    IF ~p.ok THEN p
    ELSE IF ~f.ok THEN f
    ELSE Ok([power |-> p.val, fan |-> f.val])

\* variant: a failed speed read is replaced by the default speed
_async_update_data_partial(p, f) ==
    IF ~p.ok THEN Raise("UpdateFailed", <<"Error communicating with Windmill device">> \o p.why)
    ELSE Ok([power |-> p.val, fan |-> IF f.ok THEN f.val ELSE DEFAULT_FAN_SPEED])

\* what _async_update_data returns or raises for the results p of
\* async_get_power and f of async_get_fan (f is NoResult when not reached)
_async_update_data(p, f) ==
    IF ~p.ok THEN Raise("UpdateFailed", <<"Error communicating with Windmill device">> \o p.why)
    ELSE IF ~f.ok THEN Raise("UpdateFailed", <<"Error communicating with Windmill device">> \o f.why)
    ELSE Ok([power |-> p.val, fan |-> f.val])

\* the coordinator keeps the snapshot of a successful refresh and the
\* previous one after a failed refresh
current_snapshot(outcome, previous) ==
    IF outcome.ok THEN outcome.val ELSE previous

last_refresh_successful(outcome) == outcome.ok

\* the refresh ends: p and f are the results of the two reads
FinishRefresh(p, f) ==
    LET outcome == _async_update_data(p, f)
        bothOk == p.ok /\ f.ok
    IN  /\ data' = current_snapshot(outcome, data)
        /\ last_update_success' = last_refresh_successful(outcome)
        /\ rpc' = "idle"
        /\ power_state' = NoResult
        /\ lastOutcome' = IF bothOk THEN "ok" ELSE "failed"
        /\ raised' = outcome.exc
        /\ lastGood' = IF bothOk THEN [power |-> p.val, fan |-> f.val] ELSE lastGood

\* _async_update_data starts and sends the power read
BeginRefresh ==
    /\ rpc = "idle"
    /\ rpc' = "power"
    /\ session' = _get_session(session)
    /\ replaced' = Replaced(session)
    /\ req' = [req EXCEPT !["refresh"] = NewRequest("get", PIN_POWER, <<>>)]
    /\ cycle' = [NoCycle EXCEPT !.power = "issued"]
    /\ UNCHANGED <<lastCall, power_state, data, last_update_success, lastGood,
                   lastOutcome, raised>>

\* request_refresh() or a timer tick in Idle: a refresh starts
RequestRefresh ==
    /\ BeginRefresh
    /\ UNCHANGED <<decodeVars, appVars>>

----------------------------------------------------------------------------
(* entity.py: the properties of the fan entity, d being coordinator.data *)

\* list(FAN_SPEED_MAPPING.keys()), ordered from slowest to fastest
_speed_list == <<"Whisper", "Low", "Medium", "High", "Boost">>

\* list.index(item) + 1
ListPosition(list, item) == CHOOSE i \in 1..Len(list) : list[i] = item

\* homeassistant.util.percentage.ordered_list_item_to_percentage
ordered_list_item_to_percentage(list, item) ==
    (ListPosition(list, item) * 100) \div Len(list)

is_on(d) == IF d = None THEN FALSE ELSE d.power

percentage(d) ==
    IF ~is_on(d) \/ d = None THEN 0
    ELSE IF d.fan \in {_speed_list[i] : i \in 1..Len(_speed_list)}
        THEN ordered_list_item_to_percentage(_speed_list, d.fan)
    ELSE 0

\* variant: the speed of the snapshot is reported whatever the power is
preset_mode_retained(d) == IF d = None THEN "none" ELSE d.fan

\* "none" stands for None
preset_mode(d) == IF ~is_on(d) \/ d = None THEN "none" ELSE d.fan

\* _attr_preset_modes
preset_modes == {_speed_list[i] : i \in 1..Len(_speed_list)}

\* homeassistant.util.percentage.percentage_to_ordered_list_item: the first
\* item whose upper bound the percentage does not exceed, else the last
percentage_to_ordered_list_item(list, pct) ==
    LET fits == {i \in 1..Len(list) : pct <= (i * 100) \div Len(list)}
    IN  IF fits = {} THEN list[Len(list)]
        ELSE list[CHOOSE i \in fits : \A j \in fits : i <= j]

\* what a command does next: a call of the adapter, after which it is at
\* pc, or its return after n calls of coordinator.async_request_refresh()
Write(op, flag, name, pc) ==
    [kind |-> "write", op |-> op, flag |-> flag, name |-> name, pc |-> pc, refreshes |-> 0]

Return(n) ==
    [kind |-> "return", op |-> "none", flag |-> FALSE, name |-> "none", pc |-> "none",
     refreshes |-> n]

\* variant: the name is not looked up and the power is not looked at
async_set_preset_mode_unchecked(pc, mode, d) ==
    CASE pc = "start" -> Write("set_fan", FALSE, mode, "fan")
      [] pc \in {"power", "fan"} -> Return(1)

async_set_preset_mode(pc, mode, d) ==
    CASE pc = "start" ->
            IF mode \notin preset_modes THEN Return(0)
            ELSE IF ~is_on(d) THEN Write("set_power", TRUE, "none", "power")
            ELSE Write("set_fan", FALSE, mode, "fan")
      [] pc = "power" -> Write("set_fan", FALSE, mode, "fan")
      [] pc = "fan" -> Return(1)

async_turn_off(pc) ==
    CASE pc = "start" -> Write("set_power", FALSE, "none", "off")
      [] pc = "off" -> Return(1)

\* with percentage 0 the refresh is requested by async_turn_off and again by
\* async_set_percentage
async_set_percentage(pc, pct, d) ==
    CASE pc = "start" ->
            IF pct = 0 THEN async_turn_off("start")
            ELSE IF ~is_on(d) THEN Write("set_power", TRUE, "none", "power")
            ELSE Write("set_fan", FALSE, percentage_to_ordered_list_item(_speed_list, pct),
                       "fan")
      [] pc = "off" -> Return(async_turn_off("off").refreshes + 1)
      [] pc = "power" ->
            Write("set_fan", FALSE, percentage_to_ordered_list_item(_speed_list, pct), "fan")
      [] pc = "fan" -> Return(1)

async_turn_on(pc, pct, mode, d) ==
    CASE pc = "start" -> Write("set_power", TRUE, "none", "power")
      [] pc = "power" ->
            IF mode # "none"
                THEN IF mode \in preset_modes
                         THEN Write("set_fan", FALSE, mode, "fan")
                         ELSE Write("set_fan", FALSE, DEFAULT_FAN_SPEED, "fan")
            ELSE IF pct # -1
                THEN Write("set_fan", FALSE,
                           percentage_to_ordered_list_item(_speed_list, pct), "fan")
            ELSE LET current_speed == IF d # None THEN d.fan ELSE "none"
                 IN  IF current_speed \notin preset_modes
                         THEN Write("set_fan", FALSE, DEFAULT_FAN_SPEED, "fan")
                         ELSE Return(1)
      [] pc = "fan" -> Return(1)

\* the next step of the command c, d being coordinator.data
CommandStep(c, d) ==
    CASE c.name = "set_preset_mode" -> async_set_preset_mode(c.pc, c.mode, d)
      [] c.name = "set_percentage" -> async_set_percentage(c.pc, c.percentage, d)
      [] c.name = "turn_on" -> async_turn_on(c.pc, c.percentage, c.mode, d)
      [] c.name = "turn_off" -> async_turn_off(c.pc)

\* variant: the handler logs the error and the command goes on
except_logged(err) == Ok(NoVal)

\* `except BlynkServiceError: raise` / `except Exception: raise` of the
\* commands: the error err of the adapter call is raised again
except_raise(err) == err

\* the properties of the entity are read
ReadEntity ==
    /\ view' = [read |-> TRUE, of |-> data, is_on |-> is_on(data),
                percentage |-> percentage(data), preset_mode |-> preset_mode(data)]
    /\ UNCHANGED <<pinVars, coordVars, decodeVars, device, adapterVars, lifeVars,
                   setupVars, flowVars, cmd, cmdDone>>

----------------------------------------------------------------------------
(* coordinator.py, continued *)

\* the pin call of the refresh returned or raised r
RefreshContinue(r) ==
    IF rpc = "power"
        THEN LET p == async_get_power(r)
             IN  /\ cycle' = [cycle EXCEPT !.power = IF p.ok THEN "ok" ELSE "fail",
                                           !.pval = IF p.ok THEN p.val ELSE FALSE,
                                           !.speed = IF SpeedReadFollows(p) THEN "issued" ELSE "none"]
                 /\ IF SpeedReadFollows(p)
                        THEN /\ rpc' = "speed"
                             /\ power_state' = p
                             /\ session' = _get_session(session)
                             /\ replaced' = Replaced(session)
                             /\ req' = [req EXCEPT !["refresh"] =
                                            NewRequest("get", PIN_FAN_SPEED, <<>>)]
                             /\ UNCHANGED <<data, last_update_success, lastGood, lastOutcome,
                                            raised>>
                        ELSE /\ FinishRefresh(p, NoResult)
                             /\ req' = [req EXCEPT !["refresh"] = NoReq]
                             /\ UNCHANGED <<session, replaced>>
        ELSE LET f == async_get_fan(r)
             IN  /\ cycle' = [cycle EXCEPT !.speed = IF f.ok THEN "ok" ELSE "fail",
                                           !.fval = IF f.ok THEN f.val ELSE "none"]
                 /\ FinishRefresh(power_state, f)
                 /\ req' = [req EXCEPT !["refresh"] = NoReq]
                 /\ UNCHANGED <<session, replaced>>

\* the caller's pin call returned or raised
CallerContinue ==
    /\ req' = [req EXCEPT !["caller"] = NoReq]
    /\ UNCHANGED <<session, replaced, coordVars>>

\* the pin request an adapter call sends
AdapterRequest(op, flag, name) ==
    CASE op = "set_power" ->
            LET u == _get_request_url(PIN_POWER, async_set_power_pin_value(flag))
            IN  NewRequest("set", u.pin, u.value)
      [] op = "set_fan" ->
            LET u == _get_request_url(PIN_FAN_SPEED, async_set_fan_pin_value(name))
            IN  NewRequest("set", u.pin, u.value)
      [] op = "get_fan" -> NewRequest("get", PIN_FAN_SPEED, <<>>)
      [] op \in {"get_power", "validate"} -> NewRequest("get", PIN_POWER, <<>>)

\* what the adapter call op returns or raises when its pin call gave r
AdapterResult(op, r) ==
    CASE op = "set_power" -> async_set_power(r)
      [] op = "set_fan"   -> async_set_fan(r)
      [] op = "get_power" -> async_get_power(r)
      [] op = "get_fan"   -> async_get_fan(r)
      [] op = "validate"  -> async_validate_token(async_get_power(r))

\* the pin call of the adapter call in progress returned or raised r
AdapterContinue(r) ==
    /\ adpDone' = [op |-> adp.op, flag |-> adp.flag, name |-> adp.name,
                   res |-> AdapterResult(adp.op, r)]
    /\ stored' = IF adp.op = "set_power" /\ r.ok
                     THEN [stored EXCEPT !.known = TRUE, !.power = adp.flag]
                 ELSE IF adp.op = "set_fan" /\ r.ok
                     THEN [stored EXCEPT !.fan = adp.name]
                 ELSE stored
    /\ adp' = NoAdp
    /\ req' = [req EXCEPT !["adapter"] = NoReq]
    /\ UNCHANGED <<session, replaced, coordVars>>

\* the try block around async_validate_token in async_setup_entry: v is
\* what async_validate_token returned or raised
setup_validation(v) ==
    IF v.ok
        THEN IF v.val THEN Ok(NoVal)
             ELSE Raise("ConfigEntryNotReady",
                        <<"Failed to authenticate with Windmill device">>)
    ELSE IF v.exc = "BlynkServiceError"
        THEN Raise("ConfigEntryNotReady", <<"Failed to connect to Windmill device">> \o v.why)
    ELSE v

\* variant: a failed first refresh is not looked at
setup_first_refresh_ignored(ok) == Ok(NoVal)

\* the try block around async_config_entry_first_refresh: ok tells whether
\* the first refresh succeeded
setup_first_refresh(ok) ==
    IF ok THEN Ok(NoVal)
    ELSE Raise("ConfigEntryNotReady", <<"Failed to fetch initial data">>)

\* close() marks the requests in flight when it closes the session
MarkStale(rq, before, after) ==
    [t \in Tasks |->
        IF rq[t].pc # "none" /\ after # before
            THEN [rq[t] EXCEPT !.stale = TRUE]
            ELSE rq[t]]

\* the validation of async_setup_entry returned or raised: r is the result
\* of its pin read
SetupContinue(r) ==
    LET v == async_validate_token(async_get_power(r))
        s == setup_validation(v)
    IN  /\ IF s.ok
               THEN /\ setup' = [setup EXCEPT !.pc = "validated", !.valid = "true"]
                    /\ req' = [req EXCEPT !["setup"] = NoReq]
                    /\ UNCHANGED <<session, replaced, closeLog>>
               ELSE /\ setup' = [setup EXCEPT !.pc = "done",
                                              !.valid = IF v.ok THEN "false" ELSE "raised",
                                              !.res = s]
                    /\ session' = close(session).session
                    /\ UNCHANGED replaced
                    /\ closeLog' = [called |-> TRUE, before |-> session,
                                    res |-> close(session).res]
                    /\ req' = MarkStale([req EXCEPT !["setup"] = NoReq], session, session')
        /\ UNCHANGED <<coordVars, hass_data, platforms, unload, shutdown, flowVars,
                       entityVars>>

\* the format test of _test_credentials, `not token or len(token) < 10`,
\* for a token of n characters
token_format_rejected(n) == n = 0 \/ n < 10

\* the try block of _test_credentials: v is what async_validate_token
\* returned or raised.  InvalidAuth raised inside the try for a false
\* validation is caught by `except Exception`.
_test_credentials(v) ==
    IF v.ok
        THEN IF v.val THEN Ok(NoVal) ELSE Raise("CannotConnect", <<>>)
    ELSE IF v.exc = "BlynkServiceError"
        THEN IF \E i \in 1..Len(v.why) : v.why[i] = "Invalid authentication token"
                 THEN Raise("InvalidAuth", <<>>)
                 ELSE Raise("CannotConnect", <<>>)
    ELSE Raise("CannotConnect", <<>>)

\* async_step_user: c is what _test_credentials returned or raised
async_step_user(c) ==
    IF c.ok THEN "create_entry"
    ELSE IF c.exc = "CannotConnect" THEN "cannot_connect"
    ELSE IF c.exc = "InvalidAuth" THEN "invalid_auth"
    ELSE "unknown"

\* async_step_init for a changed token: v is what async_validate_token
\* returned or raised
async_step_init(v) ==
    IF v.ok THEN (IF v.val THEN "create_entry" ELSE "invalid_auth")
    ELSE "cannot_connect"

\* the validation of a flow step returned or raised: r is the result of its
\* pin read; the service of the step is closed
FlowContinue(r) ==
    LET v == async_validate_token(async_get_power(r))
    IN  /\ flow' = [flow EXCEPT !.pc = "done",
                                 !.result = IF flow.step = "user"
                                                THEN async_step_user(_test_credentials(v))
                                                ELSE async_step_init(v)]
        /\ session' = IF v.ok THEN close(session).session ELSE session
        /\ UNCHANGED replaced
        /\ closeLog' = IF v.ok
                           THEN [called |-> TRUE, before |-> session,
                                 res |-> close(session).res]
                           ELSE closeLog
        /\ req' = MarkStale([req EXCEPT !["flow"] = NoReq], session, session')
        /\ UNCHANGED <<coordVars, shutdown>>

\* the command c takes its next step: it sends the pin write of an adapter
\* call, or requests the refresh and returns
Proceed(c) ==
    LET step == CommandStep(c, data)
    IN  IF step.kind = "write"
            THEN LET rq == AdapterRequest(step.op, step.flag, step.name)
                 IN  /\ cmd' = [c EXCEPT !.pc = step.pc,
                                         !.op = step.op,
                                         !.writes = Append(@, [pin |-> rq.pin, value |-> rq.value,
                                                               state |-> "sent"])]
                     /\ session' = _get_session(session)
                     /\ replaced' = Replaced(session)
                     /\ req' = [req EXCEPT !["command"] = rq]
                     /\ cmdDone' = NoCmdDone
            ELSE /\ cmdDone' = [name |-> c.name, mode |-> c.mode, percentage |-> c.percentage,
                                writes |-> c.writes, refreshes |-> step.refreshes,
                                res |-> Ok(NoVal)]
                 /\ cmd' = NoCmd
                 /\ req' = [req EXCEPT !["command"] = NoReq]
                 /\ UNCHANGED <<session, replaced>>

\* the pin write of the command in progress returned or raised r
CommandContinue(r) ==
    LET w == AdapterResult(cmd.op, r)
        h == IF w.ok THEN w ELSE except_raise(w)
        c == [cmd EXCEPT !.writes[Len(cmd.writes)].state = IF w.ok THEN "ok" ELSE "failed"]
    IN  /\ IF h.ok
               THEN Proceed(c)
               ELSE /\ cmdDone' = [name |-> c.name, mode |-> c.mode,
                                   percentage |-> c.percentage, writes |-> c.writes,
                                   refreshes |-> 0, res |-> h]
                    /\ cmd' = NoCmd
                    /\ req' = [req EXCEPT !["command"] = NoReq]
                    /\ UNCHANGED <<session, replaced>>
        /\ UNCHANGED <<coordVars, view>>

\* the pin call of task t ended: r is what it returned or raised, tr its
\* attempts and pauses; the coroutine that awaited it goes on
Continue(t, tr, r) ==
    /\ lastCall' = [lastCall EXCEPT ![t] =
            [op |-> req[t].op, pin |-> req[t].pin, value |-> req[t].value,
             trace |-> tr, res |-> r]]
    /\ CASE t = "refresh" -> RefreshContinue(r) /\ UNCHANGED <<adapterVars, lifeVars, hostVars>>
         [] t = "caller"  -> CallerContinue /\ UNCHANGED <<adapterVars, lifeVars, hostVars>>
         [] t = "adapter" -> AdapterContinue(r) /\ UNCHANGED <<lifeVars, hostVars>>
         [] t = "setup"   -> SetupContinue(r) /\ UNCHANGED adapterVars
         [] t = "flow"    -> FlowContinue(r) /\ UNCHANGED <<adapterVars, setupVars, entityVars>>
         [] t = "command" ->
                CommandContinue(r) /\ UNCHANGED <<adapterVars, lifeVars, setupVars, flowVars>>

\* the HTTP exchange of task t ends in o
Attempt(t, o) ==
    /\ req[t].pc = "http"
    /\ device' = DeviceAfter(req[t], o)
    /\ LET step == _make_request_with_retry(req[t].attempt, o)
           tr == Append(req[t].trace, o)
       IN  IF step.next = "sleep"
               THEN /\ req' = [req EXCEPT ![t].pc = "sleep", ![t].trace = tr]
                    /\ UNCHANGED <<session, replaced, lastCall, coordVars, adapterVars, lifeVars,
                                   hostVars>>
               ELSE Continue(t, tr, PinCallResult(req[t].op, step.res))
    /\ UNCHANGED decodeVars

\* session.get() on a session that was closed
SessionIsClosed == Raise("RuntimeError", <<"Session is closed">>)

\* asyncio.sleep(1) of task t is over: the loop goes to its next attempt,
\* which raises at once when the session the loop holds was closed
Sleep(t) ==
    /\ req[t].pc = "sleep"
    /\ IF req[t].stale
           THEN Continue(t, Append(req[t].trace, SleepEvent),
                         PinCallResult(req[t].op, SessionIsClosed))
           ELSE /\ req' = [req EXCEPT ![t].pc = "http",
                                      ![t].attempt = @ + 1,
                                      ![t].trace = Append(@, SleepEvent)]
                /\ UNCHANGED <<session, replaced, lastCall, coordVars, adapterVars, lifeVars,
                               hostVars>>
    /\ UNCHANGED <<decodeVars, device>>

\* close() is called: requests in flight go on with the closed session
Close ==
    /\ session' = close(session).session
    /\ UNCHANGED replaced
    /\ closeLog' = [called |-> TRUE, before |-> session, res |-> close(session).res]
    /\ req' = MarkStale(req, session, session')

\* a caller reads a pin
CallGet(pin) ==
    /\ req["caller"].pc = "none"
    /\ session' = _get_session(session)
    /\ replaced' = Replaced(session)
    /\ req' = [req EXCEPT !["caller"] = NewRequest("get", pin, <<>>)]
    /\ UNCHANGED <<lastCall, coordVars, decodeVars, appVars>>

\* a caller writes value to a pin
CallSet(pin, value) ==
    /\ req["caller"].pc = "none"
    /\ session' = _get_session(session)
    /\ replaced' = Replaced(session)
    /\ req' = [req EXCEPT !["caller"] =
                  LET u == _get_request_url(pin, value)
                  IN  NewRequest("set", u.pin, u.value)]
    /\ UNCHANGED <<lastCall, coordVars, decodeVars, appVars>>

\* names a speed can be asked for by: the five levels and two others
Names == Levels \cup {"Turbo", ""}

\* an adapter call starts and sends its pin request
AdapterCall(op, flag, name) ==
    /\ adp.op = "none"
    /\ req["adapter"].pc = "none"
    /\ adp' = [op |-> op, flag |-> flag, name |-> name]
    /\ session' = _get_session(session)
    /\ replaced' = Replaced(session)
    /\ req' = [req EXCEPT !["adapter"] = AdapterRequest(op, flag, name)]
    /\ UNCHANGED <<lastCall, coordVars, decodeVars, device, adpDone, stored, lifeVars,
                   hostVars>>

\* what a remote service that holds the pins answers the request rq with:
\* the stored value to a read, an empty body to an update, or a failure
Answers(rq) ==
    {Outcome("ok", IF rq.op = "get" THEN device[rq.pin] ELSE <<>>)}
        \cup {Outcome(k, <<>>) : k \in StatusKinds \cup ErrorKinds}

IdleDecode == raw = <<>> /\ InitDecode

----------------------------------------------------------------------------
(* Specifications *)

\* the coordinator refreshing
Init ==
    /\ InitPin
    /\ InitCoord
    /\ IdleDecode
    /\ InitAdapter
    /\ InitDevice
    /\ InitLife
    /\ InitSetup
    /\ InitFlow
    /\ InitEntity

RefreshAttempt == \E o \in Outcomes : Attempt("refresh", o)

RefreshSleep == Sleep("refresh")

Next == RequestRefresh \/ RefreshAttempt \/ RefreshSleep

Spec == Init /\ [][Next]_vars

\* coordinator.async_shutdown(): the service is closed; a refresh that is
\* waiting for a response or in a retry sleep is not cancelled
async_shutdown ==
    /\ ~shutdown.done
    /\ Close
    /\ shutdown' = [done |-> TRUE, inflight |-> rpc # "idle"]
    /\ UNCHANGED <<lastCall, coordVars, decodeVars, device, adapterVars, hostVars>>

\* a refresh starts while the coordinator has not been shut down
RefreshBeforeShutdown ==
    /\ ~shutdown.done
    /\ RequestRefresh

\* the coordinator refreshing and shut down
ShutdownInit == Init

ShutdownNext ==
    \/ RefreshBeforeShutdown
    \/ RefreshAttempt
    \/ RefreshSleep
    \/ async_shutdown

ShutdownSpec == ShutdownInit /\ [][ShutdownNext]_vars

\* the coordinator refreshing and the entity read
ViewInit == Init

ViewNext == RequestRefresh \/ RefreshAttempt \/ RefreshSleep \/ ReadEntity

ViewSpec == ViewInit /\ [][ViewNext]_vars

\* the pin client called directly
PinInit == Init

CallerGet == \E pin \in Pins : CallGet(pin)

CallerSet == \E pin \in Pins : CallSet(pin, [t |-> "int", v |-> 1])

CallerAttempt == \E o \in Outcomes : Attempt("caller", o)

CallerSleep == Sleep("caller")

PinNext == CallerGet \/ CallerSet \/ CallerAttempt \/ CallerSleep

PinSpec == PinInit /\ [][PinNext]_vars

\* the pin client called and closed
CloseInit == Init

CallerClose ==
    /\ Close
    /\ UNCHANGED <<lastCall, coordVars, decodeVars, device, adapterVars, shutdown,
                   hostVars>>

CloseNext == CallerGet \/ CallerSet \/ CallerAttempt \/ CallerSleep \/ CallerClose

CloseSpec == CloseInit /\ [][CloseNext]_vars

\* what async_forward_entry_setups can end in
ForwardOutcomes == {"ok", "raise"}

\* async_setup_entry is called, for the first time or again after it ended
\* with ConfigEntryNotReady: a new BlynkService is created and its
\* validation sends the read of the power pin
SetupStart ==
    /\ \/ setup.pc = "none"
       \/ setup.pc = "done" /\ setup.res.exc = "ConfigEntryNotReady"
    /\ rpc = "idle"
    /\ req["setup"].pc = "none"
    /\ setup' = [NoSetup EXCEPT !.pc = "validate"]
    /\ session' = _get_session("none")
    /\ replaced' = ReplacedService(session)
    /\ req' = [req EXCEPT !["setup"] = NewRequest("get", PIN_POWER, <<>>)]
    /\ UNCHANGED <<lastCall, coordVars, decodeVars, device, adapterVars, lifeVars,
                   hass_data, platforms, unload, flowVars, entityVars>>

\* the validation passed: the coordinator is created and stored with the
\* service, and async_config_entry_first_refresh starts the first refresh
SetupFirstRefresh ==
    /\ setup.pc = "validated"
    /\ setup' = [setup EXCEPT !.pc = "first_refresh"]
    /\ hass_data' = TRUE
    /\ unload' = [unload EXCEPT !.kept = FALSE]
    /\ BeginRefresh
    /\ UNCHANGED <<decodeVars, device, adapterVars, lifeVars, platforms, flowVars,
                   entityVars>>

\* async_config_entry_first_refresh returned or raised: the run ends with
\* ConfigEntryNotReady, or the platforms are forwarded and it returns True
SetupAfterRefresh(f) ==
    /\ setup.pc = "first_refresh"
    /\ rpc = "idle"
    /\ LET s == setup_first_refresh(last_update_success)
           refreshed == IF last_update_success THEN "ok" ELSE "failed"
       IN  IF s.ok
               THEN /\ \/ /\ f = "ok"
                          /\ platforms' = TRUE
                          /\ setup' = [setup EXCEPT !.pc = "done", !.refreshed = refreshed,
                                                    !.res = Ok(TRUE)]
                       \/ /\ f = "raise"
                          /\ platforms' \in BOOLEAN
                          /\ setup' = [setup EXCEPT !.pc = "done", !.refreshed = refreshed,
                                                    !.res = Raise("Exception", <<>>)]
                    /\ UNCHANGED <<session, replaced, closeLog, req, hass_data>>
               ELSE /\ setup' = [setup EXCEPT !.pc = "done", !.refreshed = refreshed,
                                              !.res = s]
                    /\ session' = close(session).session
                    /\ UNCHANGED replaced
                    /\ closeLog' = [called |-> TRUE, before |-> session,
                                    res |-> close(session).res]
                    /\ req' = MarkStale(req, session, session')
                    /\ hass_data' = FALSE
                    /\ UNCHANGED platforms
    /\ UNCHANGED <<lastCall, coordVars, decodeVars, device, adapterVars, shutdown,
                   unload, flowVars, entityVars>>

\* async_unload_entry is called for the entry that is set up, by Home
\* Assistant or (reload) by async_reload_entry: it waits in
\* async_unload_platforms
UnloadStart(reload) ==
    /\ setup.pc = "done"
    /\ setup.res.ok
    /\ hass_data
    /\ unload.pc \in {"none", "returned", "setup"}
    /\ rpc = "idle"
    /\ unload' = [pc |-> "platforms", reload |-> reload, res |-> "none", kept |-> FALSE,
                  before |-> session]
    /\ UNCHANGED <<pinVars, coordVars, decodeVars, device, adapterVars, lifeVars, setup,
                   hass_data, platforms, flowVars, entityVars>>

\* async_unload_platforms returned unload_ok: if true the entry is popped,
\* the coordinator is shut down and the service is closed;
\* async_unload_entry returns unload_ok
UnloadPlatforms(unload_ok) ==
    /\ unload.pc = "platforms"
    /\ unload' = [unload EXCEPT !.pc = "returned",
                                !.res = IF unload_ok THEN "true" ELSE "false"]
    /\ IF unload_ok
           THEN LET shut == close(session)
                    closed == close(shut.session)
                IN  /\ hass_data' = FALSE
                    /\ platforms' = FALSE
                    /\ session' = closed.session
                    /\ UNCHANGED replaced
                    /\ closeLog' = [called |-> TRUE, before |-> shut.session,
                                    res |-> closed.res]
                    /\ req' = MarkStale(req, session, session')
           ELSE UNCHANGED <<hass_data, platforms, session, replaced, closeLog, req>>
    /\ UNCHANGED <<lastCall, coordVars, decodeVars, device, adapterVars, shutdown, setup,
                   flowVars, entityVars>>

\* async_reload_entry goes on after async_unload_entry returned: it calls
\* async_setup_entry, which creates a new BlynkService and validates
ReloadSetup ==
    /\ unload.pc = "returned"
    /\ unload.reload
    /\ req["setup"].pc = "none"
    /\ unload' = [unload EXCEPT !.pc = "setup", !.kept = hass_data]
    /\ setup' = [NoSetup EXCEPT !.pc = "validate"]
    /\ session' = _get_session("none")
    /\ replaced' = ReplacedService(session)
    /\ req' = [req EXCEPT !["setup"] = NewRequest("get", PIN_POWER, <<>>)]
    /\ UNCHANGED <<lastCall, coordVars, decodeVars, device, adapterVars, lifeVars,
                   hass_data, platforms, flowVars, entityVars>>

\* the setup of a config entry
SetupInit == Init

SetupAttempt == \E o \in Outcomes : Attempt("setup", o)

SetupSleep == Sleep("setup")

SetupForward == \E f \in ForwardOutcomes : SetupAfterRefresh(f)

SetupNext ==
    \/ SetupStart
    \/ SetupAttempt
    \/ SetupSleep
    \/ SetupFirstRefresh
    \/ RefreshAttempt
    \/ RefreshSleep
    \/ SetupForward

SetupSpec == SetupInit /\ [][SetupNext]_vars

\* lengths of the tokens submitted to the flows
TokenLens == {0, 9, 10}

\* async_step_user with a token of n characters: _test_credentials rejects
\* the token for its format or creates a service and validates
StepUser(n) ==
    /\ flow.pc \in {"none", "done"}
    /\ IF token_format_rejected(n)
           THEN /\ flow' = [step |-> "user", pc |-> "done", len |-> n, changed |-> TRUE,
                            sent |-> FALSE,
                            result |-> async_step_user(Raise("InvalidAuth", <<>>))]
                /\ UNCHANGED <<session, replaced, req>>
           ELSE /\ flow' = [step |-> "user", pc |-> "validate", len |-> n,
                            changed |-> TRUE, sent |-> TRUE, result |-> "none"]
                /\ session' = _get_session("none")
                /\ replaced' = ReplacedService(session)
                /\ req' = [req EXCEPT !["flow"] = NewRequest("get", PIN_POWER, <<>>)]
    /\ UNCHANGED <<lastCall, coordVars, decodeVars, device, adapterVars, lifeVars,
                   setupVars, entityVars>>

\* async_step_init with a token of n characters: a token that differs from
\* the entry's is validated with a new service
StepInit(n, changed) ==
    /\ flow.pc \in {"none", "done"}
    /\ IF changed
           THEN /\ flow' = [step |-> "init", pc |-> "validate", len |-> n,
                            changed |-> TRUE, sent |-> TRUE, result |-> "none"]
                /\ session' = _get_session("none")
                /\ replaced' = ReplacedService(session)
                /\ req' = [req EXCEPT !["flow"] = NewRequest("get", PIN_POWER, <<>>)]
           ELSE /\ flow' = [step |-> "init", pc |-> "done", len |-> n, changed |-> FALSE,
                            sent |-> FALSE, result |-> "create_entry"]
                /\ UNCHANGED <<session, replaced, req>>
    /\ UNCHANGED <<lastCall, coordVars, decodeVars, device, adapterVars, lifeVars,
                   setupVars, entityVars>>

\* the config flow and the options flow
FlowInit == Init

FlowUser == \E n \in TokenLens : StepUser(n)

FlowOptions == \E n \in TokenLens, changed \in BOOLEAN : StepInit(n, changed)

FlowAttempt == \E o \in Outcomes : Attempt("flow", o)

FlowSleep == Sleep("flow")

FlowNext == FlowUser \/ FlowOptions \/ FlowAttempt \/ FlowSleep

FlowSpec == FlowInit /\ [][FlowNext]_vars

\* the adapter called directly, the remote service answering anything
AdapterInit == Init

CallSetPower == \E b \in BOOLEAN : AdapterCall("set_power", b, "none")

CallSetFan == \E n \in Names : AdapterCall("set_fan", FALSE, n)

CallGetPower == AdapterCall("get_power", FALSE, "none")

CallGetFan == AdapterCall("get_fan", FALSE, "none")

CallValidate == AdapterCall("validate", FALSE, "none")

AdapterAttempt == \E o \in Outcomes : Attempt("adapter", o)

AdapterSleep == Sleep("adapter")

AdapterNext ==
    \/ CallSetPower
    \/ CallSetFan
    \/ CallGetPower
    \/ CallGetFan
    \/ CallValidate
    \/ AdapterAttempt
    \/ AdapterSleep

AdapterSpec == AdapterInit /\ [][AdapterNext]_vars

\* the adapter called directly, the remote service holding the pins
DeviceInit == Init

DeviceAttempt == \E o \in Answers(req["adapter"]) : Attempt("adapter", o)

DeviceNext ==
    \/ CallSetPower
    \/ CallSetFan
    \/ CallGetPower
    \/ CallGetFan
    \/ DeviceAttempt
    \/ AdapterSleep

DeviceSpec == DeviceInit /\ [][DeviceNext]_vars

----------------------------------------------------------------------------
(* Properties of the coordinator (Spec) *)

\* C2: after any refresh in which a pin read failed, coordinator.data is
\* exactly the snapshot read by the last refresh whose two reads succeeded
\* (none when there was no such refresh) and last_update_success is false.
C2_FailedRefreshKeepsSnapshot ==
    lastOutcome = "failed" => data = lastGood /\ last_update_success = FALSE

\* a refresh failed after an earlier one had succeeded
C2_Witness ==
    /\ lastOutcome = "failed"
    /\ rpc = "idle"
    /\ data # None
    /\ last_update_success = FALSE

\* C3: in one refresh the speed read is sent only once the power read has
\* returned a value, never after a failed power read, and coordinator.data
\* changes only to the pair of values read by a refresh whose two reads both
\* succeeded.
C3_PowerBeforeSpeedNoPartial ==
    [][ /\ cycle'.speed # "none" => cycle'.power = "ok"
        /\ req'["refresh"].pin = PIN_FAN_SPEED => cycle'.power = "ok"
        /\ cycle'.power = "fail" => rpc' = "idle" /\ req'["refresh"] = NoReq
        /\ data' # data =>
              /\ cycle'.power = "ok"
              /\ cycle'.speed = "ok"
              /\ data' = [power |-> cycle'.pval, fan |-> cycle'.fval] ]_vars

\* a refresh whose power read succeeded and whose speed read failed left the
\* earlier snapshot in place
C3_Witness ==
    /\ rpc = "idle"
    /\ cycle.power = "ok"
    /\ cycle.speed = "fail"
    /\ data # None
    /\ data.power # cycle.pval

----------------------------------------------------------------------------
(* Properties of the pin client (PinSpec) *)

\* the attempts and the pauses of a trace, in order
AttemptsOf(tr) == SelectSeq(tr, LAMBDA e : e.kind # "sleep")

PausesOf(tr) == SelectSeq(tr, LAMBDA e : e.kind = "sleep")

\* transport-level failures: connection errors and timeouts
TransportKinds == {"clienterror", "timeout"}

\* attempts and pauses alternate, starting and ending with an attempt
Alternates(tr) ==
    /\ Len(tr) % 2 = 1
    /\ \A i \in 1..Len(tr) : (tr[i].kind = "sleep") <=> (i % 2 = 0)

\* the decoding as the specification words it: digits, letters, first
\* element of a non-empty array, else the trimmed text
SpecifiedDecode(T) ==
    IF T # <<>> /\ \A i \in 1..Len(T) : T[i] \in DecimalChars
        THEN [t |-> "int", v |-> DecimalValue(T)]
    ELSE IF IsAlpha(T) THEN [t |-> "str", v |-> T]
    ELSE LET j == JsonLoads(T)
         IN  IF j.ok /\ j.val.t = "list" /\ Len(j.val.v) > 0
                 THEN j.val.v[1]
                 ELSE [t |-> "str", v |-> T]

\* C4: a get whose first k < MAX_RETRIES attempts fail at transport level
\* and whose attempt k+1 is answered with 200 makes k+1 attempts and k
\* pauses, one after each failed attempt and none after the success, and
\* returns the decoding of the successful response.
C4_RetryThenDecode ==
    \A t \in Tasks :
        LET c == lastCall[t]
            a == AttemptsOf(c.trace)
        IN  (/\ c.op = "get"
             /\ a # <<>>
             /\ a[Len(a)].kind = "ok"
             /\ \A i \in 1..(Len(a) - 1) : a[i].kind \in TransportKinds)
            => /\ Len(a) <= MAX_RETRIES
               /\ Len(PausesOf(c.trace)) = Len(a) - 1
               /\ Alternates(c.trace)
               /\ c.res.ok
               /\ c.res.val = SpecifiedDecode(Strip(a[Len(a)].text))

\* C5: a response with a status other than 200 ends the request at once
\* with an error: it is the last event of its call, whichever attempt it
\* answers, and a request that is still running has seen none.
C5_StatusEndsRequest ==
    \A t \in Tasks :
        /\ \A i \in 1..Len(req[t].trace) : req[t].trace[i].kind \notin StatusKinds
        /\ LET tr == lastCall[t].trace
           IN  \A i \in 1..Len(tr) :
                   tr[i].kind \in StatusKinds
                   => /\ i = Len(tr)
                      /\ ~lastCall[t].res.ok
                      /\ lastCall[t].res.exc = "BlynkServiceError"
                      /\ lastCall[t].res.why =
                            CASE tr[i].kind = "401" -> <<"Invalid authentication token">>
                              [] tr[i].kind = "400" -> <<"Bad request">>
                              [] tr[i].kind = "other" -> <<"HTTP status">>

\* a call ended by a 401 that answered the attempt after a connection error
C5_Witness ==
    /\ req["caller"].pc = "none"
    /\ lastCall["caller"].op = "set"
    /\ Len(lastCall["caller"].trace) = 3
    /\ lastCall["caller"].trace[1].kind = "clienterror"
    /\ lastCall["caller"].trace[2].kind = "sleep"
    /\ lastCall["caller"].trace[3].kind = "401"

\* C6: no call makes more than MAX_RETRIES attempts, and a call all of
\* whose attempts failed at transport level made exactly MAX_RETRIES
\* attempts and MAX_RETRIES - 1 pauses, none after the last attempt, and
\* failed with the retry-exhausted error.
C6_ExhaustedAfterMaxRetries ==
    \A t \in Tasks :
        /\ Len(AttemptsOf(req[t].trace)) <= MAX_RETRIES
        /\ LET c == lastCall[t]
               a == AttemptsOf(c.trace)
           IN  /\ Len(a) <= MAX_RETRIES
               /\ (a # <<>> /\ \A i \in 1..Len(a) : a[i].kind \in TransportKinds)
                  => /\ Len(a) = MAX_RETRIES
                     /\ Len(PausesOf(c.trace)) = MAX_RETRIES - 1
                     /\ Alternates(c.trace)
                     /\ ~c.res.ok
                     /\ c.res.exc = "BlynkServiceError"
                     /\ c.res.why = <<"Request failed after attempts">>

\* C7: an attempt that timed out is followed by a pause and a further
\* attempt while attempts remain; the call fails with the retry-exhausted
\* error only when the attempt was the last of MAX_RETRIES.
C7_TimeoutIsRetried ==
    \A t \in Tasks :
        LET c == lastCall[t]
        IN  \A i \in 1..Len(c.trace) :
                c.trace[i].kind = "timeout"
                => IF Len(AttemptsOf(SubSeq(c.trace, 1, i))) < MAX_RETRIES
                       THEN /\ i + 2 <= Len(c.trace)
                            /\ c.trace[i + 1].kind = "sleep"
                            /\ c.trace[i + 2].kind # "sleep"
                       ELSE /\ i = Len(c.trace)
                            /\ c.res.why = <<"Request failed after attempts">>

----------------------------------------------------------------------------
(* Properties of the decoding (DecodeSpec) *)

\* C8: the decoding of a response text never fails, and gives the integer
\* for a text of digits, the text for a text of letters, the first element
\* for a non-empty array and the trimmed text in every other case.
C8_DecodeTotal ==
    dpc # "start" => decoded.ok /\ decoded.val = SpecifiedDecode(Strip(raw))

\* C9 as stated: get_power() is true exactly for the decoded integer 1 and
\* the decoded string "1".
C9_PowerIffIntOrStrOne ==
    (dpc = "power" /\ decoded.ok)
    => /\ powerOut.ok
       /\ powerOut.val <=> \/ decoded.val.t = "int" /\ decoded.val.v = 1
                           \/ decoded.val.t = "str" /\ decoded.val.v = <<"1">>

\* C9 amended: get_power() is true exactly when the decoded value compares
\* equal to the integer 1 (the integer 1, or a number written 1.0 as first
\* element of an array) or is the string "1"; it is false for every other
\* decoded value.
C9_PowerIffEqualOne ==
    (dpc = "power" /\ decoded.ok)
    => /\ powerOut.ok
       /\ powerOut.val <=>
             \/ decoded.val.t \in {"int", "str"} /\ PyStr(decoded.val) = <<"1">>
             \/ decoded.val.t = "float" /\ PyStr(decoded.val) = <<"1", ".", "0">>

\* the power pin answered an array whose first element is the float 1.0
C9_Witness ==
    /\ dpc = "power"
    /\ decoded.ok
    /\ decoded.val.t = "float"
    /\ powerOut.ok
    /\ powerOut.val = TRUE

\* C10: for every decoded speed-pin value get_speed() returns one of the
\* five level names: the level whose code is the string form of the value
\* when that is one of the codes, and Medium otherwise.
C10_FanAlwaysLevel ==
    (dpc = "fan" /\ decoded.ok)
    => /\ fanOut.ok
       /\ fanOut.val \in Levels
       /\ IF PyStr(decoded.val) \in Codes
              THEN FAN_SPEED_MAPPING[fanOut.val] = PyStr(decoded.val)
              ELSE fanOut.val = "Medium"

\* an array answer whose first element is no speed code was read as Medium
C10_Witness ==
    /\ dpc = "fan"
    /\ decoded.ok
    /\ decoded.val.t = "list"
    /\ fanOut.ok
    /\ fanOut.val = "Medium"

----------------------------------------------------------------------------
(* Properties of the adapter against a service that holds the pins         *)
(* (DeviceSpec)                                                            *)

\* the code the specification gives a speed name
SpecifiedCode(name) ==
    CASE name = "Whisper" -> <<"1">>
      [] name = "Low"     -> <<"2">>
      [] name = "Medium"  -> <<"3">>
      [] name = "High"    -> <<"4">>
      [] name = "Boost"   -> <<"5">>
      [] OTHER            -> <<"3">>

\* C11: set_power(false) writes 0 and set_power(true) writes 1 to the power
\* pin; set_speed(L) writes to the speed pin the code of L for the five
\* levels and "3" for any other name; and with a service that stores what
\* was written and returns it to the next read, get_speed() returns the
\* level that was set and get_power() the boolean that was set.
C11_WriteCodesRoundTrip ==
    /\ adp.op = "set_power"
       => /\ req["adapter"].op = "set"
          /\ req["adapter"].pin = "V0"
          /\ req["adapter"].value = IF adp.flag THEN <<"1">> ELSE <<"0">>
    /\ adp.op = "set_fan"
       => /\ req["adapter"].op = "set"
          /\ req["adapter"].pin = "V2"
          /\ req["adapter"].value = SpecifiedCode(adp.name)
    /\ (adpDone.op = "get_fan" /\ adpDone.res.ok /\ stored.fan # "unknown")
       => adpDone.res.val = IF stored.fan \in Levels THEN stored.fan ELSE "Medium"
    /\ (adpDone.op = "get_power" /\ adpDone.res.ok /\ stored.known)
       => adpDone.res.val = stored.power

\* Boost was written and stored, and the next read of the speed gave Boost
C11_Witness ==
    /\ adpDone.op = "get_fan"
    /\ adpDone.res.ok
    /\ adpDone.res.val = "Boost"
    /\ stored.fan = "Boost"
    /\ device["V2"] = <<"5">>
    /\ stored.known
    /\ stored.power

----------------------------------------------------------------------------
(* Properties of the adapter called directly (AdapterSpec) *)

\* C12: validate() never raises: it returns true exactly when its read of
\* the power state succeeded and false when that read failed, whether with
\* a 401, a 400, another status, a transport failure or exhausted retries;
\* the only request it sends is a read of the power pin.
C12_ValidateNeverRaises ==
    /\ adp.op = "validate"
       => req["adapter"].op = "get" /\ req["adapter"].pin = "V0"
    /\ adpDone.op = "validate"
       => LET c == lastCall["adapter"]
          IN  /\ adpDone.res.ok
              /\ adpDone.res.val \in BOOLEAN
              /\ c.op = "get"
              /\ c.pin = "V0"
              /\ adpDone.res.val <=> c.res.ok
              /\ c.trace[Len(c.trace)].kind \in StatusKinds \cup ErrorKinds
                 => adpDone.res.val = FALSE

\* validate() returned false after MAX_RETRIES connection errors
C12_Witness ==
    /\ adpDone.op = "validate"
    /\ adpDone.res.ok
    /\ adpDone.res.val = FALSE
    /\ Len(lastCall["adapter"].trace) = 2 * MAX_RETRIES - 1
    /\ lastCall["adapter"].res.why = <<"Request failed after attempts">>

----------------------------------------------------------------------------
(* Properties of close() (CloseSpec) *)

\* C13: close() never raises; called before any request was made it changes
\* nothing; called after requests were made it leaves the session closed,
\* and a further call on the closed session changes nothing.
C13_CloseIdempotent ==
    [][CallerClose =>
          /\ closeLog'.res.ok
          /\ session = "none" => session' = "none" /\ req' = req
          /\ session # "none" => session' = "closed"
          /\ session = "closed" => req' = req
          /\ UNCHANGED <<lastCall, device>>]_vars

\* close() was called on a session that an earlier close() had closed after
\* a request was made
C13_Witness ==
    /\ closeLog.called
    /\ closeLog.before = "closed"
    /\ closeLog.res.ok
    /\ session = "closed"
    /\ lastCall["caller"].op # "none"

----------------------------------------------------------------------------
(* Properties of the coordinator's error handling (Spec) *)

\* C14: whatever a pin read of a refresh fails with, _async_update_data
\* raises UpdateFailed and nothing else, and the refresh is recorded as
\* failed: no error of the adapter or of the transport leaves a refresh as
\* it was raised.
C14_AdapterErrorsBecomeUpdateFailed ==
    /\ raised \in {"none", "UpdateFailed"}
    /\ lastOutcome = "ok" => raised = "none"
    /\ (rpc = "idle" /\ lastCall["refresh"].op # "none" /\ ~lastCall["refresh"].res.ok)
       => /\ raised = "UpdateFailed"
          /\ lastOutcome = "failed"
          /\ last_update_success = FALSE

\* the speed read of a refresh ran into the timeout and the refresh ended
\* with UpdateFailed
C14_Witness ==
    /\ rpc = "idle"
    /\ raised = "UpdateFailed"
    /\ lastCall["refresh"].pin = "V2"
    /\ ~lastCall["refresh"].res.ok
    /\ lastCall["refresh"].res.why = <<"Failed to get pin value", "TimeoutError">>

----------------------------------------------------------------------------
(* Properties of the setup of a config entry (SetupSpec) *)

\* C15: async_setup_entry ends with ConfigEntryNotReady whenever validate()
\* returned false or the first refresh failed, whatever the failure was; it
\* returns True only after validate() returned true and the first refresh
\* succeeded; and a run that ended with ConfigEntryNotReady has set up no
\* platform.
C15_SetupNotReadyOnFailure ==
    /\ setup.pc = "done"
       => /\ setup.valid \in {"true", "false"}
          /\ (setup.valid = "false" \/ setup.refreshed = "failed")
             => /\ ~setup.res.ok
                /\ setup.res.exc = "ConfigEntryNotReady"
          /\ setup.res.ok => setup.valid = "true" /\ setup.refreshed = "ok"
          /\ (~setup.res.ok /\ setup.res.exc = "ConfigEntryNotReady") => ~platforms
    /\ platforms => setup.valid = "true" /\ last_update_success

\* a run whose validation passed ended with ConfigEntryNotReady because the
\* speed read of the first refresh was answered with a 401
C15_Witness ==
    /\ setup.pc = "done"
    /\ setup.valid = "true"
    /\ setup.refreshed = "failed"
    /\ setup.res.exc = "ConfigEntryNotReady"
    /\ lastCall["refresh"].pin = "V2"
    /\ lastCall["refresh"].res.why = <<"Invalid authentication token">>
    /\ ~platforms
    /\ ~hass_data
    /\ session = "closed"

----------------------------------------------------------------------------
(* Properties of the config flow and the options flow (FlowSpec) *)

\* C16: in the user step and in the options step a token that is empty or
\* shorter than 10 characters is rejected before validate() is called, so no
\* request is sent for it; and a token of at least 10 characters whose power
\* read is decoded to 1 is accepted.
C16_FormatCheckedBeforeValidate ==
    /\ (flow.changed /\ (flow.len = 0 \/ flow.len < 10))
       => /\ ~flow.sent
          /\ req["flow"].pc = "none"
          /\ flow.pc = "done" => flow.result # "create_entry"
    /\ (/\ flow.step = "user"
        /\ flow.pc = "done"
        /\ flow.len >= 10
        /\ lastCall["flow"].res.ok
        /\ PyStr(lastCall["flow"].res.val) = <<"1">>)
       => flow.result = "create_entry"

----------------------------------------------------------------------------
(* Properties of the entity's view of the snapshot (ViewSpec) *)

\* C17: whenever coordinator.data is absent or has power false, the entity
\* reports is_on false, percentage 0 and no preset mode, whatever speed the
\* snapshot holds, and reading the properties leaves the snapshot as it is.
C17_OffReportsNoSpeed ==
    [][ReadEntity =>
          /\ data' = data
          /\ (data = None \/ ~data.power)
             => /\ view'.is_on = FALSE
                /\ view'.percentage = 0
                /\ view'.preset_mode = "none"]_vars

\* the entity was read while the snapshot held power off and speed Boost
C17_Witness ==
    /\ view.read
    /\ view.of = data
    /\ data.power = FALSE
    /\ data.fan = "Boost"
    /\ view.is_on = FALSE
    /\ view.percentage = 0
    /\ view.preset_mode = "none"

----------------------------------------------------------------------------
(* Properties of the shutdown of the coordinator (ShutdownSpec) *)

\* C18: once async_shutdown() has returned the session of the pin client
\* stays closed: a refresh that was in flight at the shutdown fails in the
\* pin reads it still makes, and opens no new session.
C18_ReleasedAfterShutdown ==
    shutdown.done
    => /\ session # "open"
       /\ (shutdown.inflight /\ rpc = "idle") => lastOutcome = "failed"

\* ---------------------------------------------------------------------------
\* The commands of the entity. coordinator.data is what an earlier refresh
\* published (or None before the first one); it does not change while a
\* command runs.
\* ---------------------------------------------------------------------------

CommandSnapshots ==
    {None} \cup {[power |-> p, fan |-> f] : p \in BOOLEAN, f \in {"Low", "Boost"}}

Percentages == {0, 20, 50, 100}

CommandInit ==
    /\ InitPin
    /\ rpc = "idle"
    /\ power_state = NoResult
    /\ data \in CommandSnapshots
    /\ last_update_success = TRUE
    /\ cycle = NoCycle
    /\ lastGood = data
    /\ lastOutcome = "none"
    /\ raised = "none"
    /\ IdleDecode
    /\ InitAdapter
    /\ InitDevice
    /\ InitLife
    /\ InitSetup
    /\ InitFlow
    /\ InitEntity

\* a service call of Home Assistant starts the command name
Command(name, mode, pct) ==
    /\ cmd.name = "none"
    /\ req["command"].pc = "none"
    /\ Proceed([NoCmd EXCEPT !.name = name, !.pc = "start", !.mode = mode,
                             !.percentage = pct])
    /\ UNCHANGED <<lastCall, coordVars, decodeVars, device, adapterVars, lifeVars,
                   setupVars, flowVars, view>>

CallSetPresetMode == \E m \in Names : Command("set_preset_mode", m, -1)

CallSetPercentage == \E p \in Percentages : Command("set_percentage", "none", p)

CallTurnOn ==
    \E m \in {"none", "High", "Turbo"}, p \in {-1, 50} : Command("turn_on", m, p)

CallTurnOff == Command("turn_off", "none", -1)

CommandAttempt == \E o \in Answers(req["command"]) : Attempt("command", o)

CommandSleep == Sleep("command")

CommandNext ==
    \/ CallSetPresetMode
    \/ CallSetPercentage
    \/ CallTurnOn
    \/ CallTurnOff
    \/ CommandAttempt
    \/ CommandSleep

CommandSpec == CommandInit /\ [][CommandNext]_vars

\* the writes of a command that failed
FailedWrites(ws) == {i \in 1..Len(ws) : ws[i].state = "failed"}

\* C20: when a pin write of an entity command fails, the command raises the
\* BlynkServiceError of that write (the one the pin call raised, as long as
\* no later command has written), the failed write is the last one the
\* command sent, and the command requests no refresh
C20_FailedWriteEndsCommand ==
    /\ FailedWrites(cmd.writes) = {}
    /\ FailedWrites(cmdDone.writes) # {} =>
           /\ FailedWrites(cmdDone.writes) = {Len(cmdDone.writes)}
           /\ ~cmdDone.res.ok
           /\ cmdDone.res.exc = "BlynkServiceError"
           /\ cmd.name = "none" => cmdDone.res = lastCall["command"].res
           /\ cmdDone.refreshes = 0
    /\ (cmdDone.name # "none" /\ FailedWrites(cmdDone.writes) = {}) => cmdDone.res.ok

\* a command whose second write failed after its first one succeeded
C20_Witness ==
    /\ cmdDone.name = "turn_on"
    /\ Len(cmdDone.writes) = 2
    /\ cmdDone.writes[1].state = "ok"
    /\ cmdDone.writes[2].state = "failed"
    /\ cmdDone.res.exc = "BlynkServiceError"
    /\ cmdDone.refreshes = 0

----------------------------------------------------------------------------
(* The sessions of one pin client (PoolSpec): two callers use the client at
   the same time, one directly and one through the adapter, and the client
   is closed at any moment *)

\* what an exchange ends in: an answer or a transport failure
PoolOutcomes == {Outcome("ok", <<"1">>), Outcome("clienterror", <<>>)}

PoolInit == Init

PoolCallerAttempt == \E o \in PoolOutcomes : Attempt("caller", o)

PoolAdapterAttempt == \E o \in PoolOutcomes : Attempt("adapter", o)

PoolGet == CallGet(PIN_POWER)

PoolSet == AdapterCall("set_power", TRUE, "none")

PoolNext ==
    \/ PoolGet
    \/ PoolCallerAttempt
    \/ CallerSleep
    \/ PoolSet
    \/ PoolAdapterAttempt
    \/ AdapterSleep
    \/ CallerClose

PoolSpec == PoolInit /\ [][PoolNext]_vars

\* no request was sent yet by any task
NoRequestYet == \A t \in Tasks : req[t].pc = "none" /\ lastCall[t].op = "none"

\* C21: a pin client has no session before its first request, and at any
\* moment at most one session it created is open: every session it no longer
\* refers to is closed
C21_OneOpenSession ==
    /\ NoRequestYet => session = "none" /\ replaced = {}
    /\ session \in {"none", "open", "closed"}
    /\ replaced \subseteq {"closed"}
    /\ session = "none" => replaced = {}

\* a second session is open after the first one was closed, while both
\* callers wait in a request
C21_Witness ==
    /\ session = "open"
    /\ replaced = {"closed"}
    /\ req["caller"].pc # "none"
    /\ req["adapter"].pc # "none"

----------------------------------------------------------------------------
(* Properties of the setup's cleanup (SetupSpec) *)

\* C22: whenever async_setup_entry ends with an error, at the validation,
\* at the first refresh or at the forwarding to the platforms, the session
\* of its service is closed and hass.data holds no entry for the config
\* entry.
C22_FailedSetupLeavesNothing ==
    (setup.pc = "done" /\ ~setup.res.ok) => session = "closed" /\ ~hass_data

----------------------------------------------------------------------------
(* Unloading and reloading a config entry (ReloadSpec) *)

\* what the exchanges of the setups end in
ReloadOutcomes == {Outcome("ok", <<"1">>), Outcome("401", <<>>), Outcome("clienterror", <<>>)}

ReloadInit == Init

ReloadAttempt == \E o \in ReloadOutcomes : Attempt("setup", o)

ReloadRefreshAttempt == \E o \in ReloadOutcomes : Attempt("refresh", o)

Unload == UnloadStart(FALSE)

Reload == UnloadStart(TRUE)

UnloadReturns == \E unload_ok \in BOOLEAN : UnloadPlatforms(unload_ok)

ReloadNext ==
    \/ SetupStart
    \/ ReloadAttempt
    \/ SetupSleep
    \/ SetupFirstRefresh
    \/ ReloadRefreshAttempt
    \/ RefreshSleep
    \/ SetupForward
    \/ Unload
    \/ Reload
    \/ UnloadReturns
    \/ ReloadSetup

ReloadSpec == ReloadInit /\ [][ReloadNext]_vars

\* async_reload_entry ended: its async_setup_entry returned or raised
ReloadCompleted == unload.reload /\ unload.pc = "setup" /\ setup.pc = "done"

\* C23: after async_unload_entry returned true the entry is out of hass.data
\* and the session is closed; after it returned false both are as they were;
\* and after async_reload_entry ended no session created for the entry is
\* open but the one of the coordinator that hass.data holds.
C23_NoSessionLeaked ==
    /\ (unload.pc = "returned" /\ unload.res = "true") => ~hass_data /\ session = "closed"
    /\ (unload.pc = "returned" /\ unload.res = "false")
           => hass_data /\ session = unload.before
    /\ ReloadCompleted =>
           IF hass_data /\ ~unload.kept THEN "open" \notin replaced
           ELSE IF hass_data THEN session # "open"
           ELSE session # "open" /\ "open" \notin replaced

----------------------------------------------------------------------------
(* Properties of the user step's error classification (FlowSpec) *)

\* what async_validate_token gave for the last validation of a flow step
FlowValidation == async_validate_token(async_get_power(lastCall["flow"].res))

\* the service answered the last validation with a 401
TokenRejected ==
    /\ ~lastCall["flow"].res.ok
    /\ \E i \in 1..Len(lastCall["flow"].res.why) :
           lastCall["flow"].res.why[i] = "Invalid authentication token"

\* C24: in the user step a token of valid length for which validate()
\* returns false is reported as invalid_auth, cannot_connect is reported
\* only for failures other than a rejected token, and with either error the
\* session of the temporary service is closed and no entry is created.
C24_UserStepClassifiesErrors ==
    (flow.step = "user" /\ flow.pc = "done" /\ flow.sent) =>
        /\ (FlowValidation.ok /\ ~FlowValidation.val) => flow.result = "invalid_auth"
        /\ flow.result = "cannot_connect" => ~TokenRejected
        /\ flow.result \in {"invalid_auth", "cannot_connect"} => session = "closed"
        /\ flow.result = "create_entry" => FlowValidation.ok /\ FlowValidation.val

----------------------------------------------------------------------------
(* Properties of the entity's speed commands (CommandSpec) *)

\* the pins and values of the writes ws
PinsOf(ws) == [i \in 1..Len(ws) |-> [pin |-> ws[i].pin, value |-> ws[i].value]]

\* the writes of set_preset_mode with the level mode when the snapshot is d:
\* power on first if d is absent or says off, then the code of the level
PresetWrites(mode, d) ==
    (IF d = None \/ ~d.power THEN <<[pin |-> "V0", value |-> <<"1">>]>> ELSE <<>>)
        \o <<[pin |-> "V2", value |-> SpecifiedCode(mode)]>>

\* the writes ws sent so far by a command called with these arguments are
\* the ones it is to send, in their order
InOrder(name, mode, pct, ws) ==
    /\ (name = "set_preset_mode" /\ mode \notin Levels) => ws = <<>>
    /\ (name = "set_preset_mode" /\ mode \in Levels)
           => /\ Len(ws) \in 1..Len(PresetWrites(mode, data))
              /\ PinsOf(ws) = SubSeq(PresetWrites(mode, data), 1, Len(ws))
    /\ (name = "set_percentage" /\ pct = 0)
           => PinsOf(ws) = <<[pin |-> "V0", value |-> <<"0">>]>>

\* a call of set_preset_mode with a name that is not a level
InvalidPreset == \E m \in Names \ Levels : Command("set_preset_mode", m, -1)

\* C25: set_preset_mode with a name outside the five levels sends no write,
\* requests no refresh and changes nothing; with a level it writes power 1
\* first exactly when the snapshot is absent or says off, then the code of
\* the level, then requests the refresh; set_percentage(0) writes power 0
\* and nothing else.
C25_SpeedCommands ==
    /\ [](/\ cmd.name # "none" => InOrder(cmd.name, cmd.mode, cmd.percentage, cmd.writes)
          /\ cmdDone.name # "none"
                 => /\ InOrder(cmdDone.name, cmdDone.mode, cmdDone.percentage, cmdDone.writes)
                    /\ (cmdDone.name = "set_preset_mode" /\ cmdDone.mode \notin Levels)
                           => cmdDone.res.ok /\ cmdDone.refreshes = 0
                    /\ (cmdDone.name = "set_preset_mode" /\ cmdDone.mode \in Levels
                            /\ cmdDone.res.ok)
                           => /\ PinsOf(cmdDone.writes) = PresetWrites(cmdDone.mode, data)
                              /\ cmdDone.refreshes = 1)
    /\ [][InvalidPreset =>
              /\ cmd' = NoCmd
              /\ UNCHANGED <<pinVars, coordVars, decodeVars, device, adapterVars, lifeVars,
                             setupVars, flowVars, view>>]_vars

\* set_preset_mode("Boost") was called while the snapshot said off: power 1
\* was written, then code 5, and the refresh was requested
C25_Witness ==
    /\ cmdDone.name = "set_preset_mode"
    /\ cmdDone.mode = "Boost"
    /\ data # None
    /\ ~data.power
    /\ cmdDone.res.ok
    /\ Len(cmdDone.writes) = 2
    /\ cmdDone.writes[1].pin = "V0"
    /\ cmdDone.writes[2].value = <<"5">>
    /\ cmdDone.refreshes = 1
    /\ device = [p \in Pins |-> IF p = PIN_POWER THEN <<"1">> ELSE <<"5">>]

====
